---- MODULE Spec2Model ----
(***************************************************************************)
(* A model of buzzex.js, the Buzzex REST API client: the method router     *)
(* (api), the public call (publicMethod), the two-phase private call       *)
(* (privateMethod: nonce, signature, token fetch, authorized request), the *)
(* token provider (getToken) and the transport wrapper (rawRequest).       *)
(*                                                                         *)
(* JavaScript strings are sequences of tokens (TLA+ strings), so that      *)
(* concatenation is \o and startsWith/substr act on the first token.       *)
(* JavaScript objects are sequences of <<key, value>> pairs in insertion   *)
(* order; a key that is not set has no pair.                               *)
(***************************************************************************)
EXTENDS Integers, Sequences, FiniteSets, TLC

VARIABLES
  config,   \* this.config of the one client under test
  now,      \* the wall clock read by new Date(), in milliseconds
  heap,     \* the params objects, by reference (index)
  calls     \* one record per call of api/publicMethod/privateMethod, in start order

vars == <<config, now, heap, calls>>

(***************************************************************************)
(* Bounds of the model.                                                    *)
(***************************************************************************)
MaxCalls == 2
MaxClock == 2
MaxErrLen == 2
MaxStrLen == 2

(***************************************************************************)
(* Objects and strings.                                                    *)
(***************************************************************************)
Has(o, k) == \E j \in 1..Len(o) : o[j][1] = k

Get(o, k) == o[CHOOSE j \in 1..Len(o) : o[j][1] = k][2]

Put(o, k, v) ==
  IF Has(o, k)
  THEN [j \in 1..Len(o) |-> IF o[j][1] = k THEN <<k, v>> ELSE o[j]]
  ELSE Append(o, <<k, v>>)

RECURSIVE ObjectAssign(_, _)
ObjectAssign(target, source) ==
  IF source = <<>> THEN target
  ELSE ObjectAssign(Put(target, Head(source)[1], Head(source)[2]), Tail(source))

\* The keys whose values are numbers; every other value is a string.
NumericKeys == {"nonce", "version", "timeout"}

\* String(v) for the value v held under key k
ToStr(k, v) == IF k \in NumericKeys THEN <<ToString(v)>> ELSE v

\* encodeURIComponent, on the one reserved character the model's strings use
Encode(s) == [j \in 1..Len(s) |-> IF s[j] = "/" THEN "%2F" ELSE s[j]]

RECURSIVE QsStringify(_)
QsStringify(o) ==
  IF o = <<>> THEN <<>>
  ELSE LET item == <<Head(o)[1], "=">> \o Encode(ToStr(Head(o)[1], Head(o)[2]))
       IN  IF Tail(o) = <<>> THEN item
           ELSE item \o <<"&">> \o QsStringify(Tail(o))

(***************************************************************************)
(* Module constants.                                                       *)
(***************************************************************************)
PublicMethods == {"info", "ticker", "depth", "trades"}

PrivateMethods == {"getinfo", "trade", "active-orders", "order-info", "cancel-order"}

DefaultUrl == <<"https://api.buzzex.io">>

DefaultVersion == 0

DefaultTimeout == 5000

defaults ==
  << <<"url", DefaultUrl>>, <<"version", DefaultVersion>>, <<"timeout", DefaultTimeout>> >>

TokenUrl == <<"https://api.buzzex.io", "/api/token">>

UserAgent == <<"Buzzex Javascript API Client">>

MicrosPerMilli == 1000

(***************************************************************************)
(* Signer.                                                                 *)
(***************************************************************************)
\* The digests are kept symbolic: a digest is the record of what was hashed.
getMessageSignature(path, request, secret, nonce) ==
  LET message     == QsStringify(request)
      hash_digest == [alg |-> "sha256", data |-> <<ToString(nonce)>> \o message]
  IN  [alg |-> "hmac-sha512", key |-> secret, path |-> path, nonce |-> nonce,
       digest |-> hash_digest]

(***************************************************************************)
(* Transport: rawRequest.                                                  *)
(***************************************************************************)
\* rawRequest up to its await: the request handed to got(url, options)
rawRequestSend(url, headers, data, timeout, method) ==
  [ url     |-> IF method = "POST" THEN url \o <<"?">> \o QsStringify(data) ELSE url,
    headers |-> Put(headers, "User-Agent", UserAgent),
    timeout |-> timeout,
    method  |-> method,
    body    |-> QsStringify(data) ]

StartsWith(e, c) == Len(e) > 0 /\ e[1] = c

\* response.error.filter((e) => e.startsWith('E')).map((e) => e.substr(1))
HardCodes(errs) ==
  LET marked == SelectSeq(errs, LAMBDA e : StartsWith(e, "E"))
  IN  [j \in 1..Len(marked) |-> Tail(marked[j])]

UnknownErrorMessage == "Buzzex API returned an unknown error"

Resolved(response) == [state |-> "resolved", result |-> <<response>>, error |-> ""]

Rejected(err) == [state |-> "rejected", result |-> <<>>, error |-> err]

\* Variant of ValidateResponse with the throw of line 60 enabled.
ValidateResponseRaising(response) ==
  IF Has(response, "error") /\ Len(Get(response, "error")) > 0
  THEN IF Len(HardCodes(Get(response, "error"))) = 0
       THEN Rejected(UnknownErrorMessage)
       ELSE Rejected("RemoteError")
  ELSE Resolved(response)

\* rawRequest after JSON.parse: the check of response.error
ValidateResponse(response) ==
  IF Has(response, "error") /\ Len(Get(response, "error")) > 0
  THEN IF Len(HardCodes(Get(response, "error"))) = 0
       THEN Rejected(UnknownErrorMessage)
       ELSE Resolved(response)
  ELSE Resolved(response)

\* rawRequest from its await on: how its promise settles on what got delivers.
\* out.kind is "error" (got rejects: no connection, HTTP error status),
\* "timeout" (got rejects after options.timeout) or "body"; out.json says
\* whether JSON.parse accepts the body, out.val is what it parses to.
rawRequestSettle(out) ==
  IF out.kind = "error" THEN Rejected("RequestError")
  ELSE IF out.kind = "timeout" THEN Rejected("TimeoutError")
  ELSE IF ~out.json THEN Rejected("SyntaxError")
  ELSE ValidateResponse(out.val)

(***************************************************************************)
(* TokenProvider: getToken.                                                *)
(***************************************************************************)
\* the request getToken issues from inside its promise executor
getToken(key, secret) ==
  [ url    |-> TokenUrl,
    method |-> "POST",
    json   |-> << <<"grant_type", <<"client_credentials">> >>,
                  <<"client_id", key>>,
                  <<"client_secret", secret>> >> ]

\* Variant of FetchToken that reuses a token an earlier call was granted.
FetchTokenCached(cfg) ==
  IF \E i \in DOMAIN calls : calls[i].tokenState = "resolved"
  THEN <<>>
  ELSE <<getToken(Get(cfg, "key"), Get(cfg, "secret"))>>

\* privateMethod: the token requests its call of getToken issues
FetchToken(cfg) == <<getToken(Get(cfg, "key"), Get(cfg, "secret"))>>

\* Variant of getTokenSettle that rejects on a transport error.
getTokenSettleRejecting(out) ==
  IF out.kind = "body" THEN "resolved" ELSE "rejected"

\* the callback of request(): the state of getToken's promise afterwards
getTokenSettle(out) ==
  IF out.kind = "body" THEN "resolved" ELSE "pending"

(***************************************************************************)
(* Client.                                                                 *)
(***************************************************************************)
\* options is [type, str, obj]: undefined, a string, or an object
Constructor(key, secret, options) ==
  LET opts == IF options.type = "string"
              THEN << <<"otp", options.str>> >>
              ELSE options.obj
  IN  ObjectAssign(ObjectAssign(<< <<"key", key>>, <<"secret", secret>> >>, defaults), opts)

\* Variant of Route that treats an unknown name as a public method.
RouteFallThrough(method) ==
  IF method \in PrivateMethods THEN "private" ELSE "public"

\* Variant of Route with a public name listed as private.
RouteInfoPrivate(method) ==
  IF method \in PrivateMethods \cup {"info"} THEN "private"
  ELSE IF method \in PublicMethods THEN "public"
  ELSE "invalid"

\* api: the classification of the method name
Route(method) ==
  IF method \in PublicMethods THEN "public"
  ELSE IF method \in PrivateMethods THEN "private"
  ELSE "invalid"

InvalidMethodMessage(method) == <<method, " is not a valid API method.">>

\* Variant of HeaderMethod that posts every private call.
HeaderMethodAlwaysPost(method) == "POST"

\* privateMethod: header_method when the final request is issued
HeaderMethod(method) == IF method = "trade" THEN "POST" ELSE "GET"

\* Variant of NewNonce without the scaling to microseconds.
NewNonceMillis(t) == t

\* new Date() * 1000
NewNonce(t) == t * MicrosPerMilli

\* privateMethod: params.param normalised in place
NormalizeParam(o, method) ==
  IF ~Has(o, "param") THEN Put(o, "param", <<>>)
  ELSE IF method # "trade" THEN Put(o, "param", <<"/">> \o Get(o, "param"))
  ELSE o

\* !params.nonce
NoNonce(o) == ~Has(o, "nonce") \/ Get(o, "nonce") = 0

InjectNonce(o, t) == IF NoNonce(o) THEN Put(o, "nonce", NewNonce(t)) ELSE o

\* Variant of InjectOtp that keeps an otp the caller supplied.
InjectOtpKeepCaller(o, cfg) ==
  IF Has(cfg, "otp") /\ ~Has(o, "otp") THEN Put(o, "otp", Get(cfg, "otp")) ELSE o

\* privateMethod: the configured otp written into params
InjectOtp(o, cfg) == IF Has(cfg, "otp") THEN Put(o, "otp", Get(cfg, "otp")) ELSE o

PrivatePath(method) == <<"/api/v1/trading/", method>>

PublicPath(method) == <<"/api/v1/", method>>

\* '/' + params.param, where an unset param prints as undefined
PublicUrl(cfg, method, o) ==
  Get(cfg, "url") \o PublicPath(method) \o <<"/">>
    \o (IF Has(o, "param") THEN Get(o, "param") ELSE <<"undefined">>)

\* Variant of Bearer that reuses the token the first granted call was given.
BearerFirstGranted(value) ==
  LET granted == {j \in DOMAIN calls : Has(calls[j].tokenBody, "access_token")}
  IN  <<"Bearer ">> \o
        (IF granted # {}
         THEN Get(calls[CHOOSE j \in granted : \A k \in granted : j <= k].tokenBody,
                  "access_token")
         ELSE IF Has(value, "access_token")
              THEN Get(value, "access_token") ELSE <<"undefined">>)

\* "Bearer " + value.access_token
Bearer(value) ==
  <<"Bearer ">> \o (IF Has(value, "access_token")
                    THEN Get(value, "access_token") ELSE <<"undefined">>)

\* Variant of PrivateHeaders that sends the signature in an API-Sign header.
PrivateHeadersSigned(c, value) ==
  << <<"API-Sign", c.signature>>, <<"Authorization", Bearer(value)>> >>

\* privateMethod: const headers, in the token.then callback of call c
PrivateHeaders(c, value) == << <<"Authorization", Bearer(value)>> >>

\* The calls of the callback made by response.then(...).catch(...), for a
\* callback that is absent ("none"), returns, or raises whenever it is called.
CallbackCalls(cb, settled) ==
  IF cb = "none" THEN <<>>
  ELSE IF settled.state = "resolved"
       THEN IF cb = "raises"
            THEN << [err |-> "null", result |-> settled.result],
                    [err |-> "CallbackError", result |-> <<>>] >>
            ELSE << [err |-> "null", result |-> settled.result] >>
       ELSE << [err |-> settled.error, result |-> <<>>] >>

\* A call that has not done anything yet.
NewCall(entry, method, t) ==
  [ entry      |-> entry,     \* "api", "publicMethod" or "privateMethod"
    method     |-> method,
    cb         |-> "none",    \* the callback in effect: "none", "returns", "raises"
    obj        |-> 0,         \* the params object in effect (index in heap)
    given      |-> <<>>,      \* that object as the call found it
    startedAt  |-> t,         \* new Date() at the start of the call
    ret        |-> "undefined", \* what the caller got: "promise", "undefined", "thrown"
    thrown     |-> <<>>,      \* the message of the error thrown at the caller
    url        |-> <<>>,
    signature  |-> <<>>,      \* the value of const signature, if computed
    tokenReqs  |-> <<>>,      \* requests issued by getToken
    tokenNet   |-> "none",    \* "pending", then what request() reported
    tokenState |-> "none",    \* getToken's promise: "pending", "resolved", "rejected"
    tokenBody  |-> <<>>,
    reqs       |-> <<>>,      \* requests issued by rawRequest
    net        |-> "none",    \* "pending", then what got delivered
    netOut     |-> <<>>,
    state      |-> "none",    \* rawRequest's promise: "pending", "resolved", "rejected"
    result     |-> <<>>,
    error      |-> "",
    cbLog      |-> <<>>,      \* the calls of the callback, in order
    unhandled  |-> FALSE ]    \* a rejection nothing handles

\* The params and callback in effect after "params = params || {}" and the
\* typeof params === 'function' swap; a new {} is allocated on the heap.
\* p is [type, fn, ref]: undefined, a function, or a reference to an object.
Effective(p, cb, h) ==
  IF p.type = "object"
  THEN [heap |-> h, obj |-> p.ref, cb |-> cb]
  ELSE [heap |-> Append(h, <<>>), obj |-> Len(h) + 1,
        cb |-> IF p.type = "function" THEN p.fn ELSE cb]

publicMethod(entry, method, p, callback, h, t, cfg) ==
  LET e   == Effective(p, callback, h)
      o   == e.heap[e.obj]
      url == PublicUrl(cfg, method, o)
      req == rawRequestSend(url, <<>>, o, Get(cfg, "timeout"), "GET")
  IN  [ heap |-> e.heap,
        call |-> [NewCall(entry, method, t) EXCEPT
                    !.cb = e.cb, !.obj = e.obj, !.given = o, !.url = url,
                    !.reqs = <<req>>, !.net = "pending", !.state = "pending",
                    !.ret = "promise"] ]

privateMethod(entry, method, p, callback, h, t, cfg) ==
  LET e    == Effective(p, callback, h)
      o1   == NormalizeParam(e.heap[e.obj], method)
      path == PrivatePath(method)
      url  == Get(cfg, "url") \o path \o Get(o1, "param")
      o3   == InjectOtp(InjectNonce(o1, t), cfg)
      sig  == getMessageSignature(path, o3, Get(cfg, "secret"), Get(o3, "nonce"))
      tok  == FetchToken(cfg)
  IN  [ heap |-> [e.heap EXCEPT ![e.obj] = o3],
        call |-> [NewCall(entry, method, t) EXCEPT
                    !.cb = e.cb, !.obj = e.obj, !.given = e.heap[e.obj], !.url = url,
                    !.signature = <<sig>>,
                    !.tokenReqs = tok, !.tokenNet = "pending",
                    !.tokenState = "pending",
                    !.ret = "undefined"] ]

api(method, p, callback, h, t, cfg) ==
  LET cb == IF p.type = "function" THEN p.fn ELSE callback
      \* api hands publicMethod/privateMethod params = {} after the swap
      q  == IF p.type = "function"
            THEN [type |-> "object", fn |-> "none", ref |-> Len(h) + 1] ELSE p
      hh == IF p.type = "function" THEN Append(h, <<>>) ELSE h
  IN  IF Route(method) = "public" THEN publicMethod("api", method, q, cb, hh, t, cfg)
      ELSE IF Route(method) = "private" THEN privateMethod("api", method, q, cb, hh, t, cfg)
      ELSE [ heap |-> hh,
             call |-> [NewCall("api", method, t) EXCEPT
                         !.cb = cb,
                         !.obj = IF q.type = "object" THEN q.ref ELSE 0,
                         !.ret = "thrown",
                         !.thrown = InvalidMethodMessage(method)] ]

(***************************************************************************)
(* Inputs.                                                                 *)
(***************************************************************************)
Key == <<"key">>

Secret == <<"c2VjcmV0">>

AllMethods == PublicMethods \cup PrivateMethods \cup {"bogus-method"}

NoOptions == [type |-> "undefined", str |-> <<>>, obj |-> <<>>]

OptionsInputs ==
  { NoOptions,
    [type |-> "string", str |-> <<"123456">>, obj |-> <<>>],
    [type |-> "object", str |-> <<>>, obj |-> << <<"otp", <<"123456">> >> >>],
    [type |-> "object", str |-> <<>>, obj |-> << <<"url", <<"https://test.example">> >> >>] }

\* The params objects a caller passes: param, nonce and otp each set or not.
ParamChoices == { <<>>, << <<"param", <<"x">> >> >> }

NonceChoices == { <<>>, << <<"nonce", 0>> >>, << <<"nonce", 7>> >> }

OtpChoices == { <<>>, << <<"otp", <<"u">> >> >> }

ParamsInputs == { a \o b \o c : a \in ParamChoices, b \in NonceChoices, c \in OtpChoices }

Callbacks == {"none", "returns", "raises"}

\* An argument in the params position: [type, fn, ref, content]; an object
\* with ref = 0 is one the caller creates for this call, with the content given.
ArgUndefined == [type |-> "undefined", fn |-> "none", ref |-> 0, content |-> <<>>]

ArgFunction(f) == [type |-> "function", fn |-> f, ref |-> 0, content |-> <<>>]

ArgObject(content) == [type |-> "object", fn |-> "none", ref |-> 0, content |-> content]

ArgInputs ==
  {ArgUndefined} \cup {ArgFunction(f) : f \in {"returns", "raises"}}
    \cup {ArgObject(c) : c \in ParamsInputs}

\* What the transport delivers: [kind, json, val].
NetError == [kind |-> "error", json |-> FALSE, val |-> <<>>]

NetTimeout == [kind |-> "timeout", json |-> FALSE, val |-> <<>>]

NetGarbage == [kind |-> "body", json |-> FALSE, val |-> <<>>]

NetJson(val) == [kind |-> "body", json |-> TRUE, val |-> val]

Payload == <<"result", <<"ok">> >>

ResponseOmitsError == << Payload >>

ResponseWith(errs) == << <<"error", errs>>, Payload >>

NetInputs ==
  { NetError, NetTimeout, NetGarbage,
    NetJson(ResponseOmitsError),
    NetJson(ResponseWith(<<>>)),
    NetJson(ResponseWith(<< <<"E", "G">> >>)),
    NetJson(ResponseWith(<< <<"W">> >>)) }

TokenGranted == NetJson(<< <<"access_token", <<"t1">> >> >>)

TokenRefused == NetJson(<< <<"error", <<"invalid_client">> >> >>)

TokenInputs == { NetError, TokenGranted, TokenRefused }

(***************************************************************************)
(* Actions.                                                                *)
(***************************************************************************)
\* The heap once the caller has created the object it passes, if it does.
CallerHeap(a) == IF a.type = "object" /\ a.ref = 0 THEN Append(heap, a.content) ELSE heap

CallerArg(a) ==
  [type |-> a.type, fn |-> a.fn,
   ref |-> IF a.type = "object" /\ a.ref = 0 THEN Len(heap) + 1 ELSE a.ref]

Begin(r) ==
  /\ heap' = r.heap
  /\ calls' = Append(calls, r.call)
  /\ UNCHANGED <<config, now>>

CallApi(method, a, callback) ==
  Begin(api(method, CallerArg(a), callback, CallerHeap(a), now, config))

CallPublicMethod(method, a, callback) ==
  Begin(publicMethod("publicMethod", method, CallerArg(a), callback, CallerHeap(a), now, config))

CallPrivateMethod(method, a, callback) ==
  Begin(privateMethod("privateMethod", method, CallerArg(a), callback, CallerHeap(a), now, config))

\* request() calls back in getToken; on a body, the token.then callback of
\* privateMethod runs and issues the final request.
TokenResponds(i, out) ==
  /\ calls[i].tokenNet = "pending"
  /\ LET c       == calls[i]
         settled == getTokenSettle(out)
         headers == PrivateHeaders(c, out.val)
         req     == rawRequestSend(c.url, headers, heap[c.obj],
                                   Get(config, "timeout"), HeaderMethod(c.method))
     IN  calls' = [calls EXCEPT ![i] =
           IF settled = "resolved"
           THEN [c EXCEPT !.tokenNet = out.kind, !.tokenState = settled,
                          !.tokenBody = out.val,
                          !.reqs = <<req>>, !.net = "pending", !.state = "pending"]
           ELSE [c EXCEPT !.tokenNet = out.kind, !.tokenState = settled]]
  /\ UNCHANGED <<config, now, heap>>

\* got settles; rawRequest's promise settles, and the callback chain runs.
\* In privateMethod the promise of token.then(...) adopts the rejection and
\* nothing handles it; a callback that raises in .catch is not handled either.
Responds(i, out) ==
  /\ calls[i].net = "pending"
  /\ LET c       == calls[i]
         settled == rawRequestSettle(out)
         log     == CallbackCalls(c.cb, settled)
     IN  calls' = [calls EXCEPT ![i] =
           [c EXCEPT !.net = out.kind, !.netOut = <<out>>,
                     !.state = settled.state, !.result = settled.result,
                     !.error = settled.error,
                     !.cbLog = log,
                     !.unhandled = \/ (c.ret # "promise" /\ settled.state = "rejected")
                                   \/ (c.cb = "raises" /\ log # <<>>)]]
  /\ UNCHANGED <<config, now, heap>>

Tick ==
  /\ now < MaxClock
  /\ now' = now + 1
  /\ UNCHANGED <<config, heap, calls>>

(***************************************************************************)
(* Spec: a sequence of api calls, possibly in flight together, each with   *)
(* default params and no callback.                                         *)
(***************************************************************************)
SeqNetInputs == { NetError, NetJson(ResponseOmitsError) }

SeqTokenInputs == { NetError, TokenGranted }

Init ==
  /\ config = Constructor(Key, Secret, NoOptions)
  /\ now = 1
  /\ heap = <<>>
  /\ calls = <<>>

ApiCalled ==
  /\ Len(calls) < MaxCalls
  /\ \E m \in AllMethods : CallApi(m, ArgUndefined, "none")

TokenArrives == \E i \in DOMAIN calls : \E out \in SeqTokenInputs : TokenResponds(i, out)

ResponseArrives == \E i \in DOMAIN calls : \E out \in SeqNetInputs : Responds(i, out)

Next == ApiCalled \/ TokenArrives \/ ResponseArrives

Spec == Init /\ [][Next]_vars

(***************************************************************************)
(* SpecOne: one call, with every method name, argument shape, callback,    *)
(* client option and outcome.                                              *)
(***************************************************************************)
InitOne ==
  /\ config \in { Constructor(Key, Secret, o) : o \in OptionsInputs }
  /\ now = 1
  /\ heap = <<>>
  /\ calls = <<>>

ApiOne ==
  /\ calls = <<>>
  /\ \E m \in AllMethods, a \in ArgInputs, cb \in Callbacks : CallApi(m, a, cb)

PublicOne ==
  /\ calls = <<>>
  /\ \E m \in AllMethods, a \in ArgInputs, cb \in Callbacks : CallPublicMethod(m, a, cb)

PrivateOne ==
  /\ calls = <<>>
  /\ \E m \in AllMethods, a \in ArgInputs, cb \in Callbacks : CallPrivateMethod(m, a, cb)

TokenArrivesOne == \E i \in DOMAIN calls : \E out \in TokenInputs : TokenResponds(i, out)

ResponseArrivesOne == \E i \in DOMAIN calls : \E out \in NetInputs : Responds(i, out)

NextOne == ApiOne \/ PublicOne \/ PrivateOne \/ TokenArrivesOne \/ ResponseArrivesOne \/ Tick

SpecOne == InitOne /\ [][NextOne]_vars

(***************************************************************************)
(* SpecRaw: one public call whose response carries every error list up to  *)
(* the bounds.                                                             *)
(***************************************************************************)
SeqsUpTo(S, n) == UNION { [1..k -> S] : k \in 0..n }

ErrorStrings == SeqsUpTo({"E", "W"}, MaxStrLen)

ErrorLists == SeqsUpTo(ErrorStrings, MaxErrLen)

RawInputs ==
  { NetError, NetTimeout, NetGarbage, NetJson(ResponseOmitsError) }
    \cup { NetJson(ResponseWith(errs)) : errs \in ErrorLists }

PublicRaw ==
  /\ calls = <<>>
  /\ \E m \in PublicMethods, cb \in Callbacks :
       CallPublicMethod(m, ArgObject(<< <<"param", <<"x">> >> >>), cb)

ResponseArrivesRaw == \E i \in DOMAIN calls : \E out \in RawInputs : Responds(i, out)

NextRaw == PublicRaw \/ ResponseArrivesRaw

SpecRaw == Init /\ [][NextRaw]_vars

(***************************************************************************)
(* The claims.                                                             *)
(***************************************************************************)
\* A call that runs privateMethod, and one that runs publicMethod.
RunsPrivate(c) ==
  \/ c.entry = "privateMethod"
  \/ c.entry = "api" /\ c.method \in PrivateMethods

RunsPublic(c) ==
  \/ c.entry = "publicMethod"
  \/ c.entry = "api" /\ c.method \in PublicMethods

Settled(c) == c.state \in {"resolved", "rejected"}

\* A response whose error list is non-empty and has no entry marked 'E'.
UnknownRemote(response) ==
  /\ Has(response, "error")
  /\ Get(response, "error") # <<>>
  /\ \A j \in DOMAIN Get(response, "error") : ~StartsWith(Get(response, "error")[j], "E")

\* An asynchronous failure happened in call c.
AsyncFailure(c) ==
  \/ c.tokenNet = "error"
  \/ c.net \in {"error", "timeout"}
  \/ c.net = "body" /\ (~c.netOut[1].json \/ UnknownRemote(c.netOut[1].val))

RECURSIVE TokenFetches(_)
TokenFetches(cs) ==
  IF cs = <<>> THEN 0 ELSE Len(Head(cs).tokenReqs) + TokenFetches(Tail(cs))

\* C1: every call of api with a public or private method name, and every
\* direct call of publicMethod or privateMethod, returns a promise to the
\* caller, and that promise is settled once the final request has been
\* answered.
C1_ReturnsSettlingPromise ==
  \A i \in DOMAIN calls :
    (RunsPublic(calls[i]) \/ RunsPrivate(calls[i])) =>
      /\ calls[i].ret = "promise"
      /\ (calls[i].net \in {"error", "timeout", "body"} => Settled(calls[i]))

\* C2: every asynchronous failure of a started call rejects the result the
\* caller got and, with a callback, calls it with the error first.
C2_FailuresPropagate ==
  \A i \in DOMAIN calls :
    AsyncFailure(calls[i]) =>
      /\ calls[i].ret = "promise"
      /\ calls[i].state = "rejected"
      /\ calls[i].cb # "none" =>
           /\ calls[i].cbLog # <<>>
           /\ calls[i].cbLog[1].err = calls[i].error

\* C3: once the transport has reported an error for the credential-grant
\* call, getToken's promise is rejected: not pending, not resolved.
C3_TokenErrorSurfaces ==
  \A i \in DOMAIN calls :
    calls[i].tokenNet = "error" => calls[i].tokenState = "rejected"

\* C4: each api call with a private method name issues exactly one token
\* fetch, so N private calls have issued N token fetches.
C4_OneTokenFetchPerPrivateCall ==
  /\ \A i \in DOMAIN calls :
       calls[i].method \in PrivateMethods => Len(calls[i].tokenReqs) = 1
  /\ TokenFetches(calls) =
       Cardinality({i \in DOMAIN calls : calls[i].method \in PrivateMethods})

C4_Witness ==
  /\ Len(calls) >= 2
  /\ \A i \in DOMAIN calls :
       calls[i].method \in PrivateMethods /\ calls[i].tokenState = "resolved"

\* C5: an api call with a public method name issues no token fetch, and a
\* sequence of public calls only has issued none.
C5_PublicNeverFetchesToken ==
  /\ \A i \in DOMAIN calls :
       calls[i].method \in PublicMethods => calls[i].tokenReqs = <<>>
  /\ (\A i \in DOMAIN calls : calls[i].method \in PublicMethods)
       => TokenFetches(calls) = 0

C5_Witness ==
  /\ Len(calls) >= 2
  /\ \A i \in DOMAIN calls :
       calls[i].method \in PublicMethods /\ Settled(calls[i])

\* C6: api with a name in neither set throws "<name> is not a valid API
\* method." at the caller: no promise, no token fetch, no request, no call of
\* the callback.
C6_InvalidMethodThrows ==
  \A i \in DOMAIN calls :
    (calls[i].entry = "api" /\ calls[i].method \notin PublicMethods \cup PrivateMethods) =>
      /\ calls[i].ret = "thrown"
      /\ calls[i].thrown = <<calls[i].method, " is not a valid API method.">>
      /\ calls[i].state = "none" /\ calls[i].tokenState = "none"
      /\ calls[i].tokenReqs = <<>> /\ calls[i].reqs = <<>>
      /\ calls[i].cbLog = <<>>

C6_Witness ==
  \E i \in DOMAIN calls :
    /\ calls[i].entry = "api" /\ calls[i].method = "bogus-method"
    /\ calls[i].cb = "returns" /\ calls[i].obj # 0
    /\ calls[i].ret = "thrown"
    /\ now > calls[i].startedAt

\* C7: a callback given to a call whose final request has settled has been
\* called exactly once, with (null, result) or (error, null).
C7_CallbackExactlyOnce ==
  \A i \in DOMAIN calls :
    (calls[i].cb # "none" /\ Settled(calls[i])) =>
      /\ Len(calls[i].cbLog) = 1
      /\ calls[i].state = "resolved" =>
           calls[i].cbLog[1] = [err |-> "null", result |-> calls[i].result]
      /\ calls[i].state = "rejected" =>
           calls[i].cbLog[1] = [err |-> calls[i].error, result |-> <<>>]

\* C8: the final request of a private call is a POST for trade and a GET for
\* getinfo, active-orders, order-info and cancel-order; the final request of
\* a public call is a GET.
C8_HttpMethod ==
  \A i \in DOMAIN calls : \A k \in DOMAIN calls[i].reqs :
    /\ (RunsPrivate(calls[i]) /\ calls[i].method = "trade") =>
         calls[i].reqs[k].method = "POST"
    /\ (RunsPrivate(calls[i]) /\ calls[i].method \in PrivateMethods \ {"trade"}) =>
         calls[i].reqs[k].method = "GET"
    /\ RunsPublic(calls[i]) => calls[i].reqs[k].method = "GET"

C8_Witness ==
  \E i \in DOMAIN calls :
    /\ calls[i].entry = "api" /\ calls[i].method = "trade"
    /\ Has(calls[i].given, "param")
    /\ Len(calls[i].reqs) = 1 /\ calls[i].reqs[1].method = "POST"

\* C9: rawRequest resolves with exactly the parsed response when its error
\* field is absent or empty, resolves with the response when the error list
\* has an entry marked 'E', and fails with the unknown-error message when the
\* list is non-empty with no entry marked 'E'.
C9_ErrorClassification ==
  \A i \in DOMAIN calls :
    (calls[i].net = "body" /\ calls[i].netOut[1].json) =>
      LET response == calls[i].netOut[1].val
      IN  IF UnknownRemote(response)
          THEN /\ calls[i].state = "rejected"
               /\ calls[i].error = "Buzzex API returned an unknown error"
               /\ calls[i].result = <<>>
          ELSE /\ calls[i].state = "resolved"
               /\ calls[i].result = <<response>>

C9_Witness ==
  \E i \in DOMAIN calls :
    /\ calls[i].net = "body" /\ calls[i].netOut[1].json
    /\ Has(calls[i].netOut[1].val, "error")
    /\ Get(calls[i].netOut[1].val, "error") = << <<"W">>, <<"E", "W">> >>
    /\ calls[i].state = "resolved"

\* the tokens key=value occur in the serialized params s
Carries(s, key, value) ==
  \E j \in 1..(Len(s) - 2) : s[j] = key /\ s[j + 1] = "=" /\ s[j + 2] = value

\* C10: privateMethod on params without a nonce leaves params.nonce a
\* positive integer, at least the clock at the start of the call in
\* microseconds; the signer gets that nonce and the final request sends it.
C10_NonceInjected ==
  \A i \in DOMAIN calls :
    (RunsPrivate(calls[i]) /\ ~Has(calls[i].given, "nonce")) =>
      LET o == heap[calls[i].obj]
      IN  /\ Has(o, "nonce")
          /\ Get(o, "nonce") \in Nat /\ Get(o, "nonce") > 0
          /\ Get(o, "nonce") >= calls[i].startedAt * 1000
          /\ Len(calls[i].signature) = 1
          /\ calls[i].signature[1].nonce = Get(o, "nonce")
          /\ \A k \in DOMAIN calls[i].reqs :
               Carries(calls[i].reqs[k].body, "nonce", ToString(Get(o, "nonce")))

C10_Witness ==
  \E i \in DOMAIN calls :
    /\ calls[i].entry = "privateMethod" /\ calls[i].method = "getinfo"
    /\ ~Has(calls[i].given, "nonce")
    /\ calls[i].startedAt = 2
    /\ Len(calls[i].reqs) = 1
    /\ Get(heap[calls[i].obj], "nonce") = 2000

\* C11: privateMethod leaves a nonce the caller supplied unchanged, whatever
\* its value (0 included); the signer gets that value and the final request
\* sends it.
C11_SuppliedNonceKept ==
  \A i \in DOMAIN calls :
    (RunsPrivate(calls[i]) /\ Has(calls[i].given, "nonce")) =>
      LET o == heap[calls[i].obj]
          n == Get(calls[i].given, "nonce")
      IN  /\ Has(o, "nonce") /\ Get(o, "nonce") = n
          /\ Len(calls[i].signature) = 1
          /\ calls[i].signature[1].nonce = n
          /\ \A k \in DOMAIN calls[i].reqs :
               Carries(calls[i].reqs[k].body, "nonce", ToString(n))

\* C12: every token fetch of a private call is a POST to /api/token under
\* the base URL the client is configured with, the base URL of the call's
\* final request.
C12_TokenUrlFromConfig ==
  \A i \in DOMAIN calls : \A k \in DOMAIN calls[i].tokenReqs :
    /\ calls[i].tokenReqs[k].method = "POST"
    /\ calls[i].tokenReqs[k].url = Get(config, "url") \o <<"/api/token">>
    /\ SubSeq(calls[i].url, 1, Len(Get(config, "url"))) = Get(config, "url")

\* C13: privateMethod sets an absent params.param to the empty string and
\* requests {baseUrl}/api/v1/trading/{method}; a param that is present is
\* prefixed with '/' and appended to the path unless the method is trade,
\* where it is left as it is and kept out of the URL path.
C13_ParamNormalized ==
  \A i \in DOMAIN calls :
    RunsPrivate(calls[i]) =>
      LET c    == calls[i]
          o    == heap[c.obj]
          base == Get(config, "url") \o <<"/api/v1/trading/", c.method>>
      IN  /\ Has(o, "param")
          /\ ~Has(c.given, "param") =>
               Get(o, "param") = <<>> /\ c.url = base
          /\ (Has(c.given, "param") /\ c.method # "trade") =>
               /\ Get(o, "param") = <<"/">> \o Get(c.given, "param")
               /\ c.url = base \o <<"/">> \o Get(c.given, "param")
          /\ (Has(c.given, "param") /\ c.method = "trade") =>
               /\ Get(o, "param") = Get(c.given, "param")
               /\ c.url = base
               /\ \A k \in DOMAIN c.reqs :
                    Carries(c.reqs[k].body, "param", Get(c.given, "param")[1])

(***************************************************************************)
(* SpecPair: private api calls in flight together on a client with a       *)
(* configured one-time password; each token fetch fails, is refused or is  *)
(* granted one of two tokens, in any order.                                *)
(***************************************************************************)
TokenGrantedOther == NetJson(<< <<"access_token", <<"t2">> >> >>)

PairTokenInputs == { NetError, TokenGranted, TokenGrantedOther, TokenRefused }

PairNetInputs == { NetJson(ResponseOmitsError) }

InitPair ==
  /\ config = Constructor(Key, Secret, [type |-> "string", str |-> <<"123456">>, obj |-> <<>>])
  /\ now = 1
  /\ heap = <<>>
  /\ calls = <<>>

PrivateCalled ==
  /\ Len(calls) < MaxCalls
  /\ \E m \in PrivateMethods : CallApi(m, ArgUndefined, "none")

TokenArrivesPair == \E i \in DOMAIN calls : \E out \in PairTokenInputs : TokenResponds(i, out)

ResponseArrivesPair == \E i \in DOMAIN calls : \E out \in PairNetInputs : Responds(i, out)

NextPair == PrivateCalled \/ TokenArrivesPair \/ ResponseArrivesPair

SpecPair == InitPair /\ [][NextPair]_vars

\* C14: in every private call the signature is computed over the params
\* with nonce and otp injected, the token fetch is issued, and the final
\* request is issued only once that call's own token fetch has delivered,
\* with an Authorization header carrying the token that fetch returned,
\* whatever the order in which the token fetches of concurrent calls complete.
C14_OwnTokenAfterFetch ==
  \A i \in DOMAIN calls :
    RunsPrivate(calls[i]) =>
      LET c == calls[i]
          o == heap[c.obj]
      IN  /\ Has(o, "nonce") /\ Has(o, "otp")
          /\ Len(c.signature) = 1
          /\ c.signature[1].nonce = Get(o, "nonce")
          /\ c.signature[1].digest.data = <<ToString(Get(o, "nonce"))>> \o QsStringify(o)
          /\ Len(c.tokenReqs) = 1
          /\ c.tokenState # "resolved" => c.reqs = <<>>
          /\ \A k \in DOMAIN c.reqs :
               /\ c.tokenNet = "body" /\ c.tokenState = "resolved"
               /\ Has(c.reqs[k].headers, "Authorization")
               /\ Has(c.tokenBody, "access_token") =>
                    Get(c.reqs[k].headers, "Authorization")
                      = <<"Bearer ">> \o Get(c.tokenBody, "access_token")

C14_Witness ==
  /\ Len(calls) >= 2
  /\ Len(calls[1].reqs) = 1 /\ Len(calls[2].reqs) = 1
  /\ Get(calls[1].reqs[1].headers, "Authorization") = <<"Bearer ", "t2">>
  /\ Get(calls[2].reqs[1].headers, "Authorization") = <<"Bearer ", "t1">>
  /\ calls[2].state = "resolved" /\ calls[1].state = "pending"

(***************************************************************************)
(* SpecReuse: private calls one after another or in flight together, on    *)
(* new params objects or on an object an earlier call was given, while the *)
(* clock may or may not advance between them.                              *)
(***************************************************************************)
ArgReuse(r) == [type |-> "object", fn |-> "none", ref |-> r, content |-> <<>>]

ReuseMethods == {"getinfo", "cancel-order", "trade"}

ReuseArgs ==
  { ArgUndefined, ArgObject(<< <<"param", <<"x">> >> >>) }
    \cup { ArgReuse(r) : r \in DOMAIN heap }

PrivateReused ==
  /\ Len(calls) < MaxCalls
  /\ \E m \in ReuseMethods, a \in ReuseArgs : CallPrivateMethod(m, a, "none")

TokenArrivesReuse == \E i \in DOMAIN calls : TokenResponds(i, TokenGranted)

NextReuse == PrivateReused \/ TokenArrivesReuse \/ Tick

SpecReuse == Init /\ [][NextReuse]_vars

\* C15: of two private calls that supply no nonce, each on its own params
\* object, the later one is assigned a strictly larger nonce, also when the
\* clock has not advanced between them.
C15_NoncesStrictlyIncrease ==
  \A i, j \in DOMAIN calls :
    ( /\ i < j
      /\ calls[i].obj # calls[j].obj
      /\ ~Has(calls[i].given, "nonce") /\ ~Has(calls[j].given, "nonce") ) =>
      calls[j].signature[1].nonce > calls[i].signature[1].nonce

\* C19: a second call of the same non-trade private method with the params
\* object an earlier call was given with a param and without a nonce
\* targets the same URL as that call and signs a nonce of its own.
C19_ReissueRepeatable ==
  \A i, j \in DOMAIN calls :
    ( /\ i < j
      /\ calls[i].obj = calls[j].obj
      /\ calls[i].method = calls[j].method /\ calls[i].method # "trade"
      /\ Has(calls[i].given, "param") /\ ~Has(calls[i].given, "nonce") ) =>
      /\ calls[j].url = calls[i].url
      /\ calls[j].signature[1].nonce # calls[i].signature[1].nonce

Keys(o) == { o[j][1] : j \in DOMAIN o }

\* C16: every private call computes a signature over /api/v1/trading/{method}
\* and the params, and its final request carries only the Authorization and
\* User-Agent headers and the params param, nonce and otp (with what the
\* caller put in them): the signature is neither a header nor a parameter.
C16_SignatureNotSent ==
  \A i \in DOMAIN calls :
    RunsPrivate(calls[i]) =>
      LET c == calls[i]
          o == heap[c.obj]
      IN  /\ Len(c.signature) = 1
          /\ c.signature[1].path = <<"/api/v1/trading/", c.method>>
          /\ Keys(o) \subseteq Keys(c.given) \cup {"param", "nonce", "otp"}
          /\ \A k \in DOMAIN c.reqs :
               /\ Keys(c.reqs[k].headers) = {"Authorization", "User-Agent"}
               /\ c.reqs[k].body = QsStringify(o)
               /\ c.reqs[k].url \in {c.url, c.url \o <<"?">> \o QsStringify(o)}

C16_Witness ==
  \E i \in DOMAIN calls :
    /\ calls[i].entry = "api" /\ calls[i].method = "trade"
    /\ Len(calls[i].signature) = 1
    /\ Len(calls[i].reqs) = 1
    /\ calls[i].state = "resolved"

\* C17: publicMethod issues exactly one request per call, a GET with no
\* header but User-Agent, to {baseUrl}/api/v1/{method}/{param} when
\* params.param is present, and with no segment made from the missing value
\* when it is absent.
C17_PublicRequest ==
  \A i \in DOMAIN calls :
    RunsPublic(calls[i]) =>
      LET c    == calls[i]
          base == Get(config, "url") \o <<"/api/v1/", c.method>>
      IN  /\ Len(c.reqs) = 1
          /\ c.reqs[1].method = "GET"
          /\ Keys(c.reqs[1].headers) = {"User-Agent"}
          /\ Has(c.given, "param") =>
               c.reqs[1].url = base \o <<"/">> \o Get(c.given, "param")
          /\ ~Has(c.given, "param") =>
               c.reqs[1].url \in {base, base \o <<"/">>}

\* C18: after privateMethod has prepared a call, params.otp is the
\* configured one-time password when the client has one (given as
\* options.otp or as a bare string), whatever the caller supplied; with
\* none configured params.otp is as the caller supplied it, or absent.
C18_OtpInjected ==
  \A i \in DOMAIN calls :
    RunsPrivate(calls[i]) =>
      LET c == calls[i]
          o == heap[c.obj]
      IN  /\ Has(config, "otp") =>
               /\ Get(config, "otp") = <<"123456">>
               /\ Has(o, "otp") /\ Get(o, "otp") = Get(config, "otp")
          /\ ~Has(config, "otp") =>
               /\ Has(o, "otp") <=> Has(c.given, "otp")
               /\ Has(o, "otp") => Get(o, "otp") = Get(c.given, "otp")

C18_Witness ==
  \E i \in DOMAIN calls :
    /\ calls[i].entry = "privateMethod"
    /\ Has(calls[i].given, "otp") /\ Get(calls[i].given, "otp") = <<"u">>
    /\ Has(config, "otp")
    /\ Get(heap[calls[i].obj], "otp") = <<"123456">>
    /\ Len(calls[i].reqs) = 1
    /\ Carries(calls[i].reqs[1].body, "otp", "123456")

\* C20: a private call whose token fetch delivered a body without
\* access_token issues no final request and ends in a failure.
C20_NoRequestWithoutToken ==
  \A i \in DOMAIN calls :
    (calls[i].tokenNet = "body" /\ ~Has(calls[i].tokenBody, "access_token")) =>
      /\ calls[i].reqs = <<>>
      /\ calls[i].state \in {"none", "rejected"}

====
